---- MODULE Spec2Model ----
(***************************************************************************)
(* A model of prompt_flow's two scripts, extract_prompts.py (text export)  *)
(* and parse_to_db.py (SQLite export).  Strings are sequences of           *)
(* one-character strings; a log line is the JSON value json.loads gives    *)
(* for it, reduced to the fields the scripts read.  The database is the    *)
(* three tables of init_database together with the last committed          *)
(* snapshot, so that an uncaught exception loses the open transaction.     *)
(***************************************************************************)
EXTENDS Naturals, Sequences, FiniteSets

\* ------------------------------------------------------------------ bounds
\* Most directory entries under ~/.claude/projects in one log tree.
MaxDirs == 3
\* Most lines in the session file of the line-variety log trees.
MaxLines == 2
\* Most session files in the directory of the many-files log trees.
MaxFiles == 2
\* Most runs of parse_to_database on one database.
MaxRuns == 2

\* ----------------------------------------------------------------- strings
\* The control characters U+000B (vertical tab) and U+001C to U+001F (file,
\* group, record and unit separator), which have no escape and stand in
\* their strings as themselves.
VT == ""
FS == ""
GS == ""
RS == ""
US == ""

\* The characters str.strip() removes: those for which str.isspace() holds.
\* These are all of them in ASCII; the ones beyond ASCII (U+0085, U+00A0,
\* U+1680, U+2000 to U+200A, U+2028, U+2029, U+202F, U+205F, U+3000) cannot
\* be written in a string of this module and are not part of its alphabet.
WhiteSpace == {" ", "\t", "\n", "\r", "\f", VT, FS, GS, RS, US}

\* Python's str.strip(): leading and trailing whitespace removed.
RECURSIVE LStrip(_)
LStrip(s) ==
  IF s # <<>> /\ Head(s) \in WhiteSpace THEN LStrip(Tail(s)) ELSE s

RECURSIVE RStrip(_)
RStrip(s) ==
  IF s # <<>> /\ s[Len(s)] \in WhiteSpace
  THEN RStrip(SubSeq(s, 1, Len(s) - 1))
  ELSE s

Strip(s) == RStrip(LStrip(s))

\* Python's str.startswith(p).
StartsWith(s, p) == Len(s) >= Len(p) /\ SubSeq(s, 1, Len(p)) = p

\* Python's str.split(c) for a one-character separator.
RECURSIVE Split(_, _)
Split(s, c) ==
  IF \E i \in 1..Len(s) : s[i] = c
  THEN LET i == CHOOSE k \in 1..Len(s) :
                  s[k] = c /\ \A j \in 1..(k - 1) : s[j] # c
       IN  <<SubSeq(s, 1, i - 1)>> \o Split(SubSeq(s, i + 1, Len(s)), c)
  ELSE <<s>>

\* Python's c.join(parts).
RECURSIVE Join(_, _)
Join(parts, c) ==
  IF parts = <<>> THEN <<>>
  ELSE IF Len(parts) = 1 THEN parts[1]
  ELSE parts[1] \o <<c>> \o Join(Tail(parts), c)

DigitChar == <<"0", "1", "2", "3", "4", "5", "6", "7", "8", "9">>

\* An f-string's decimal rendering of a non-negative integer.
RECURSIVE Digits(_)
Digits(n) ==
  IF n < 10 THEN <<DigitChar[n + 1]>>
  ELSE Digits(n \div 10) \o <<DigitChar[(n % 10) + 1]>>

UsersPrefix == <<"-", "U", "s", "e", "r", "s", "-">>
TxtSuffix == <<".", "t", "x", "t">>

\* get_project_name: the directory name without its -Users-<username>- prefix.
get_project_name(project_dir_name) ==
  IF StartsWith(project_dir_name, UsersPrefix)
  THEN LET all == Split(project_dir_name, "-")
           parts == SubSeq(all, 4, Len(all))
       IN  IF parts # <<>> THEN Join(parts, "-") ELSE project_dir_name
  ELSE project_dir_name

\* extract_prompts derives the project name with its own copy of that code.
ExtractProjectName(dir_name) ==
  IF StartsWith(dir_name, UsersPrefix)
  THEN LET all == Split(dir_name, "-")
           parts == SubSeq(all, 4, Len(all))
       IN  IF parts # <<>> THEN Join(parts, "-") ELSE dir_name
  ELSE dir_name

\* extract_prompts' output_filename for the current_count-th directory of a name.
OutputFilename(project_name, current_count) ==
  IF current_count > 1
  THEN project_name \o Digits(current_count) \o TxtSuffix
  ELSE project_name \o TxtSuffix

\* ------------------------------------------------------------------ inputs
\* A log line, as json.loads(line.strip()) sees it:
\*   json      "blank" | "invalid" (JSONDecodeError), "nonobject" (a list, a
\*             number, a string, null), "object"
\*   type      the object's 'type': "user", "assistant", or "absent"
\*   message   the object's 'message': "absent", "nonobject", "object"
\*   ckind     message's 'content': "absent", "nonstr", "str" (then content)
\*   tkind     the object's 'timestamp': "absent", "empty" (falsy),
\*             "nonstr" (truthy, not a string), "badiso", "iso" (then ts)
Line(json, type, message, ckind, content, tkind, ts) ==
  [json |-> json, type |-> type, message |-> message, ckind |-> ckind,
   content |-> content, tkind |-> tkind, ts |-> ts]

NotJson(json) == Line(json, "absent", "absent", "absent", <<>>, "absent", 0)

User(content, tkind, ts) ==
  Line("object", "user", "object", "str", content, tkind, ts)

LnBlank == NotJson("blank")
LnInvalid == NotJson("invalid")
LnArray == NotJson("nonobject")
LnAssistant ==
  Line("object", "assistant", "object", "str", <<"a">>, "iso", 1)
LnNoMessage ==
  Line("object", "user", "absent", "absent", <<>>, "iso", 1)
LnMessageStr ==
  Line("object", "user", "nonobject", "absent", <<>>, "iso", 1)
LnNoContent ==
  Line("object", "user", "object", "absent", <<>>, "iso", 1)
LnSpaces == User(<<" ", "\t", VT, US>>, "badiso", 0)
LnListContent ==
  Line("object", "user", "object", "nonstr", <<>>, "iso", 1)
LnA1 == User(<<" ", "a", "\n">>, "iso", 1)
LnA2 == User(<<"a">>, "iso", 2)
LnB == User(<<FS, "a", " ", "b", VT>>, "iso", 1)
LnNoTs == User(<<"a">>, "absent", 0)
LnEmptyTs == User(<<"b">>, "empty", 0)
LnBadTs == User(<<"a">>, "badiso", 0)
LnNumTs == User(<<"a">>, "nonstr", 0)

Lines ==
  {LnBlank, LnInvalid, LnArray, LnAssistant, LnNoMessage, LnMessageStr,
   LnNoContent, LnSpaces, LnListContent, LnA1, LnA2, LnB, LnNoTs, LnEmptyTs,
   LnBadTs, LnNumTs}

\* A file of a project directory: its stem, whether *.jsonl matches it, its lines.
File(stem, jsonl, lines) == [stem |-> stem, jsonl |-> jsonl, lines |-> lines]

\* An entry of ~/.claude/projects: its name, whether it is a directory, its files.
Entry(name, is_dir, files) == [name |-> name, is_dir |-> is_dir, files |-> files]

Stems == <<"s1", "s2", "s3", "s4", "s5">>

\* Entry names: three that derive "f" or collide with its numbering, one with
\* nothing after the username, one with a dash in the path, one plain file.
NmAF == UsersPrefix \o <<"a", "-", "f">>
NmBF == UsersPrefix \o <<"b", "-", "f">>
NmF2 == <<"f", "2">>
NmA == UsersPrefix \o <<"a">>
NmAFG == UsersPrefix \o <<"a", "-", "f", "-", "g">>
NmNotes == <<"n">>

EntryNames == {NmAF, NmBF, NmF2, NmA, NmAFG, NmNotes}

\* The i-th entry of a name-variety tree holds one prompt, "a" or "b" in turn.
NthLine(i) == IF i % 2 = 1 THEN LnA1 ELSE User(<<"b">>, "iso", i)

\* Trees that vary the entries' names: up to MaxDirs entries of distinct names.
NameLogs ==
  UNION {
    { [i \in 1..n |->
         Entry(names[i], names[i] # NmNotes,
               <<File(Stems[i], TRUE, <<NthLine(i)>>)>>)] :
      names \in { f \in [1..n -> EntryNames] :
                    \A i, j \in 1..n : i # j => f[i] # f[j] } } :
    n \in 0..MaxDirs }

\* Trees that vary the lines: one directory, one session file, up to MaxLines lines.
LineLogs ==
  UNION {
    { <<Entry(NmAF, TRUE, <<File(Stems[1], TRUE, ls)>>)>> :
      ls \in [1..n -> Lines] } :
    n \in 0..MaxLines }

\* Trees that vary the files: one directory, up to MaxFiles files of one line.
FileLogs ==
  UNION {
    { <<Entry(NmAF, TRUE,
              [i \in 1..n |-> File(Stems[i], fs[i][1], <<fs[i][2]>>)])>> :
      fs \in [1..n -> BOOLEAN \X {LnA1, LnA2, LnB}] } :
    n \in 0..MaxFiles }

Logs == NameLogs \cup LineLogs \cup FileLogs

\* ------------------------------------------------------------- line filters
\* message.get('content', ''): the default is the empty string.
ContentOf(line) == IF line.ckind = "str" THEN line.content ELSE <<>>

\* isinstance(content, str) and content.strip()
HasPrompt(line) ==
  /\ line.ckind \in {"str", "absent"}
  /\ Strip(ContentOf(line)) # <<>>

\* What extract_prompts does with one line: "keep" it, "skip" it, or die of
\* the exception named.  Only JSONDecodeError is caught.
ExtractOutcome(line) ==
  IF line.json \in {"blank", "invalid"} THEN "skip"
  ELSE IF line.json = "nonobject" THEN "AttributeError"
  ELSE IF line.type = "user" /\ line.message # "absent"
       THEN IF line.message = "nonobject" THEN "AttributeError"
            ELSE IF HasPrompt(line) THEN "keep" ELSE "skip"
       ELSE "skip"

\* DbOutcome without the test of timestamp_str: a record with no timestamp
\* is kept.
DbOutcomeAnyTimestamp(line) ==
  IF line.json \in {"blank", "invalid"} THEN "JSONDecodeError"
  ELSE IF line.json = "nonobject" THEN "AttributeError"
  ELSE IF line.type = "user" /\ line.message # "absent"
       THEN IF line.message = "nonobject" THEN "AttributeError"
            ELSE IF HasPrompt(line)
                 THEN CASE line.tkind = "nonstr" -> "AttributeError"
                        [] line.tkind = "badiso" -> "ValueError"
                        [] OTHER -> "keep"
                 ELSE "skip"
       ELSE "skip"

\* What parse_to_database does with one line; "JSONDecodeError" is caught
\* and printed, the other exceptions end the run.
DbOutcome(line) ==
  IF line.json \in {"blank", "invalid"} THEN "JSONDecodeError"
  ELSE IF line.json = "nonobject" THEN "AttributeError"
  ELSE IF line.type = "user" /\ line.message # "absent"
       THEN IF line.message = "nonobject" THEN "AttributeError"
            ELSE IF HasPrompt(line) /\ line.tkind \notin {"absent", "empty"}
                 THEN CASE line.tkind = "nonstr" -> "AttributeError"
                        [] line.tkind = "badiso" -> "ValueError"
                        [] OTHER -> "keep"
                 ELSE "skip"
       ELSE "skip"

\* ---------------------------------------------------------------- database
\* The tables of init_database, empty; projects_seq is the AUTOINCREMENT
\* sequence of projects (prompts never loses a row, so its next id is its
\* length plus one).  created_at and last_synced hold the wall clock and are
\* left out.
EmptyDb ==
  [prompts |-> <<>>, prompts_fts |-> <<>>, projects |-> <<>>, projects_seq |-> 0]

\* init_database creating its tables anew on every run.
init_database_fresh(exists, tables) == EmptyDb

\* init_database: CREATE ... IF NOT EXISTS keeps the tables a database file
\* already holds and makes empty ones in a new file.
init_database(exists, tables) == IF exists THEN tables ELSE EmptyDb

\* A SELECT that never finds the pair.
FetchOneNever(tbl, content, project_name) == 0

\* upsert_prompt's SELECT ... fetchone(): the first row of the pair, 0 for None.
FetchOne(tbl, content, project_name) ==
  IF \E i \in 1..Len(tbl) :
       tbl[i].content = content /\ tbl[i].project_name = project_name
  THEN CHOOSE i \in 1..Len(tbl) :
         /\ tbl[i].content = content /\ tbl[i].project_name = project_name
         /\ \A j \in 1..(i - 1) :
              ~(tbl[j].content = content /\ tbl[j].project_name = project_name)
  ELSE 0

\* An UPDATE that sets the timestamp and forgets the count.
UpdatePromptKeepsCount(tbl, prompt_id, timestamp) ==
  [i \in 1..Len(tbl) |->
     IF tbl[i].id = prompt_id
     THEN [tbl[i] EXCEPT !.timestamp = timestamp]
     ELSE tbl[i]]

\* UPDATE prompts SET count = count + 1, timestamp = ? WHERE id = ?
UpdatePrompt(tbl, prompt_id, timestamp) ==
  [i \in 1..Len(tbl) |->
     IF tbl[i].id = prompt_id
     THEN [tbl[i] EXCEPT !.count = @ + 1, !.timestamp = timestamp]
     ELSE tbl[i]]

\* INSERT INTO prompts (...) VALUES (?, ?, ?, ?, 1)
InsertPrompt(tbl, content, project_name, session_id, timestamp) ==
  Append(tbl, [id |-> Len(tbl) + 1, content |-> content,
               project_name |-> project_name, session_id |-> session_id,
               timestamp |-> timestamp, count |-> 1])

\* upsert_prompt without its INSERT INTO prompts_fts.
InsertFtsNothing(fts, content, project_name) == fts

\* INSERT INTO prompts_fts (content, project_name) VALUES (?, ?)
InsertFts(fts, content, project_name) ==
  Append(fts, [content |-> content, project_name |-> project_name])

\* upsert_prompt: the database after the call.
upsert_prompt(db, content, project_name, session_id, timestamp) ==
  LET existing == FetchOne(db.prompts, content, project_name)
  IN  IF existing # 0
      THEN [db EXCEPT !.prompts =
              UpdatePrompt(db.prompts, db.prompts[existing].id, timestamp)]
      ELSE [db EXCEPT
              !.prompts = InsertPrompt(db.prompts, content, project_name,
                                       session_id, timestamp),
              !.prompts_fts = InsertFts(db.prompts_fts, content, project_name)]

\* update_project_stats: INSERT OR REPLACE on the UNIQUE name drops the row of
\* that name and appends a new one with a fresh id.
update_project_stats(db, project_name, total_prompts) ==
  [db EXCEPT
     !.projects =
        Append(SelectSeq(db.projects, LAMBDA r : r.name # project_name),
               [id |-> db.projects_seq + 1, name |-> project_name,
                total_prompts |-> total_prompts]),
     !.projects_seq = @ + 1]

\* ------------------------------------------------------------------- state
VARIABLES
  logs,            \* the entries of ~/.claude/projects, in iterdir() order
  script,          \* the script of the current or last run: "none", "extract", "db"
  pc,              \* "idle", "enter", "lines", "leave", "finish", "done",
                   \* "not_found", "crashed"
  di, fi, li,      \* the directory, its file and that file's line being read
  project_name,    \* both scripts' project_name
  stdout,          \* the kind of the last message printed
  output_dir,      \* extract: whether prompt_exports/ exists
  files,           \* extract: the files of prompt_exports/, name -> text
  project_counts,  \* extract: project_counts
  output_filename, \* extract: output_filename
  prompts,         \* extract: prompts
  total_prompts,   \* extract: total_prompts
  db_file,         \* db: whether prompts.db exists
  disk,            \* db: the committed tables of prompts.db
  conn,            \* db: the tables as the open connection sees them
  project_prompts, \* db: project_prompts
  total_processed, \* db: total_processed
  project_stats,   \* db: project_stats
  runs             \* db: the completed runs of parse_to_database on prompts.db

vars ==
  <<logs, script, pc, di, fi, li, project_name, stdout, output_dir, files,
    project_counts, output_filename, prompts, total_prompts, db_file, disk,
    conn, project_prompts, total_processed, project_stats, runs>>

extract_vars ==
  <<output_dir, files, project_counts, output_filename, prompts, total_prompts>>

db_vars ==
  <<db_file, disk, conn, project_prompts, total_processed, project_stats, runs>>

\* claude_dir.iterdir() without the entries that are no directories.
ProjectDirs == SelectSeq(logs, LAMBDA e : e.is_dir)

\* project_dir.glob('*.jsonl')
JsonlFiles(project_dir) == SelectSeq(project_dir.files, LAMBDA f : f.jsonl)

CurFiles == JsonlFiles(ProjectDirs[di])
CurLine == CurFiles[fi].lines[li]

\* The first line at or after line l of file f of the current files: <<f, l>>,
\* or <<0, 0>> when the files hold no further line.
RECURSIVE Seek(_, _, _)
Seek(fs, f, l) ==
  IF f > Len(fs) THEN <<0, 0>>
  ELSE IF l <= Len(fs[f].lines) THEN <<f, l>>
  ELSE Seek(fs, f + 1, 1)

\* A dictionary read with a default of 0 (defaultdict(int)).
Get(d, k) == IF k \in DOMAIN d THEN d[k] ELSE 0

\* A dictionary or a directory with k set to v.
Put(d, k, v) == [x \in DOMAIN d \cup {k} |-> IF x = k THEN v ELSE d[x]]

Empty == [x \in {} |-> 0]

Init ==
  /\ logs \in Logs
  /\ script = "none"
  /\ pc = "idle"
  /\ di = 0 /\ fi = 0 /\ li = 0
  /\ project_name = <<>>
  /\ stdout = "none"
  /\ output_dir = FALSE
  /\ files = Empty
  /\ project_counts = Empty
  /\ output_filename = <<>>
  /\ prompts = <<>>
  /\ total_prompts = 0
  /\ db_file = FALSE
  /\ disk = EmptyDb
  /\ conn = EmptyDb
  /\ project_prompts = 0
  /\ total_processed = 0
  /\ project_stats = Empty
  /\ runs = 0

\* No script is running: a new process may be started.
Stopped == pc \in {"idle", "done", "not_found", "crashed"}

\* The loop over the directories starts at the first one, or ends at once.
LoopEntry == IF ProjectDirs = <<>> THEN "finish" ELSE "enter"

\* After a line (or on entering a directory): on to the next line of the
\* directory's files, or to the end of the directory.
Goto(pos) ==
  /\ fi' = pos[1]
  /\ li' = pos[2]
  /\ pc' = IF pos[1] = 0 THEN "leave" ELSE "lines"

\* After a directory: on to the next one, or out of the loop.
NextDir ==
  /\ di' = di + 1
  /\ fi' = 0 /\ li' = 0
  /\ pc' = IF di < Len(ProjectDirs) THEN "enter" ELSE "finish"

\* ---------------------------------------------------------- extract_prompts
\* The text of an output file: each prompt followed by two newlines.
RECURSIVE FileText(_)
FileText(ps) ==
  IF ps = <<>> THEN <<>>
  ELSE Head(ps) \o <<"\n", "\n">> \o FileText(Tail(ps))

\* extract_prompts() when ~/.claude/projects does not exist.
ExtractNotFound ==
  /\ Stopped
  /\ script' = "extract"
  /\ stdout' = "not_found"
  /\ pc' = "not_found"
  /\ UNCHANGED <<logs, di, fi, li, project_name, extract_vars, db_vars>>

\* extract_prompts() up to its loop, when the directory exists.
ExtractBegin ==
  /\ Stopped
  /\ script' = "extract"
  /\ output_dir' = TRUE
  /\ project_counts' = Empty
  /\ total_prompts' = 0
  /\ prompts' = <<>>
  /\ output_filename' = <<>>
  /\ project_name' = <<>>
  /\ di' = 1 /\ fi' = 0 /\ li' = 0
  /\ pc' = LoopEntry
  /\ UNCHANGED <<logs, stdout, files, db_vars>>

\* The head of the loop body: the project's name, its count, the file's name.
ExtractEnterDir ==
  /\ script = "extract" /\ pc = "enter"
  /\ LET name == ExtractProjectName(ProjectDirs[di].name)
         current_count == Get(project_counts, name) + 1
     IN  /\ project_name' = name
         /\ project_counts' = Put(project_counts, name, current_count)
         /\ output_filename' = OutputFilename(name, current_count)
  /\ prompts' = <<>>
  /\ Goto(Seek(CurFiles, 1, 1))
  /\ UNCHANGED <<logs, script, di, stdout, output_dir, files, total_prompts,
                 db_vars>>

\* One line of one session file.
ExtractLine ==
  /\ script = "extract" /\ pc = "lines"
  /\ LET outcome == ExtractOutcome(CurLine)
     IN  IF outcome \in {"keep", "skip"}
         THEN /\ prompts' = IF outcome = "keep"
                            THEN Append(prompts, Strip(ContentOf(CurLine)))
                            ELSE prompts
              /\ Goto(Seek(CurFiles, fi, li + 1))
              /\ UNCHANGED stdout
         ELSE /\ pc' = "crashed"
              /\ stdout' = outcome
              /\ UNCHANGED <<fi, li, prompts>>
  /\ UNCHANGED <<logs, script, di, project_name, output_dir, files,
                 project_counts, output_filename, total_prompts, db_vars>>

\* The end of the loop body: the directory's prompts are written, if any.
ExtractLeaveDir ==
  /\ script = "extract" /\ pc = "leave"
  /\ IF prompts # <<>>
     THEN /\ files' = Put(files, output_filename, FileText(prompts))
          /\ stdout' = "exported"
          /\ total_prompts' = total_prompts + Len(prompts)
     ELSE /\ stdout' = "no_prompts"
          /\ UNCHANGED <<files, total_prompts>>
  /\ NextDir
  /\ UNCHANGED <<logs, script, project_name, output_dir, project_counts,
                 output_filename, prompts, db_vars>>

\* After the loop: the total is printed.
ExtractFinish ==
  /\ script = "extract" /\ pc = "finish"
  /\ stdout' = "total"
  /\ pc' = "done"
  /\ UNCHANGED <<logs, script, di, fi, li, project_name, extract_vars, db_vars>>

\* -------------------------------------------------------- parse_to_database
\* parse_to_database() opening the database before it looks for the directory.
DbNotFoundAfterInit ==
  /\ Stopped
  /\ script' = "db"
  /\ db_file' = TRUE
  /\ disk' = init_database(db_file, disk)
  /\ conn' = init_database(db_file, disk)
  /\ stdout' = "not_found"
  /\ pc' = "not_found"
  /\ UNCHANGED <<logs, di, fi, li, project_name, extract_vars,
                 project_prompts, total_processed, project_stats, runs>>

\* parse_to_database() when ~/.claude/projects does not exist.
DbNotFound ==
  /\ Stopped
  /\ script' = "db"
  /\ stdout' = "not_found"
  /\ pc' = "not_found"
  /\ UNCHANGED <<logs, di, fi, li, project_name, extract_vars, db_vars>>

\* parse_to_database() up to its loop: init_database creates what is missing
\* of the schema and commits; the connection sees the committed tables.
DbBegin ==
  /\ Stopped
  /\ runs < MaxRuns
  /\ script' = "db"
  /\ db_file' = TRUE
  /\ disk' = init_database(db_file, disk)
  /\ conn' = init_database(db_file, disk)
  /\ project_stats' = Empty
  /\ total_processed' = 0
  /\ project_prompts' = 0
  /\ project_name' = <<>>
  /\ di' = 1 /\ fi' = 0 /\ li' = 0
  /\ pc' = LoopEntry
  /\ UNCHANGED <<logs, stdout, extract_vars, runs>>

\* The head of the loop body.
DbEnterDir ==
  /\ script = "db" /\ pc = "enter"
  /\ project_name' = get_project_name(ProjectDirs[di].name)
  /\ project_prompts' = 0
  /\ Goto(Seek(CurFiles, 1, 1))
  /\ UNCHANGED <<logs, script, di, stdout, extract_vars, db_file, disk, conn,
                 total_processed, project_stats, runs>>

\* One line of one session file.  An exception that is not caught ends the
\* process before conn.commit(): the open transaction is lost.
DbLine ==
  /\ script = "db" /\ pc = "lines"
  /\ LET outcome == DbOutcome(CurLine)
     IN  IF outcome \in {"keep", "skip", "JSONDecodeError"}
         THEN /\ IF outcome = "keep"
                 THEN /\ conn' = upsert_prompt(conn, Strip(ContentOf(CurLine)),
                                               project_name, CurFiles[fi].stem,
                                               CurLine.ts)
                      /\ project_prompts' = project_prompts + 1
                      /\ total_processed' = total_processed + 1
                 ELSE UNCHANGED <<conn, project_prompts, total_processed>>
              /\ stdout' = IF outcome = "JSONDecodeError"
                           THEN "parse_error" ELSE stdout
              /\ Goto(Seek(CurFiles, fi, li + 1))
         ELSE /\ pc' = "crashed"
              /\ stdout' = outcome
              /\ conn' = disk
              /\ UNCHANGED <<fi, li, project_prompts, total_processed>>
  /\ UNCHANGED <<logs, script, di, project_name, extract_vars, db_file, disk,
                 project_stats, runs>>

\* The end of the loop body: the project's row is replaced, if it had prompts.
DbLeaveDir ==
  /\ script = "db" /\ pc = "leave"
  /\ IF project_prompts > 0
     THEN /\ project_stats' = Put(project_stats, project_name, project_prompts)
          /\ conn' = update_project_stats(conn, project_name, project_prompts)
          /\ stdout' = "project"
     ELSE UNCHANGED <<project_stats, conn, stdout>>
  /\ NextDir
  /\ UNCHANGED <<logs, script, project_name, extract_vars, db_file, disk,
                 project_prompts, total_processed, runs>>

\* After the loop: conn.commit(), conn.close() and the closing messages.
DbFinish ==
  /\ script = "db" /\ pc = "finish"
  /\ disk' = conn
  /\ runs' = runs + 1
  /\ stdout' = "saved"
  /\ pc' = "done"
  /\ UNCHANGED <<logs, script, di, fi, li, project_name, extract_vars, db_file,
                 conn, project_prompts, total_processed, project_stats>>

Next ==
  \/ ExtractNotFound
  \/ ExtractBegin
  \/ ExtractEnterDir
  \/ ExtractLine
  \/ ExtractLeaveDir
  \/ ExtractFinish
  \/ DbNotFound
  \/ DbBegin
  \/ DbEnterDir
  \/ DbLine
  \/ DbLeaveDir
  \/ DbFinish

Spec == Init /\ [][Next]_vars

\* ===================================================================
\* Properties.  What the logs hold is counted from the tree itself,
\* position by position, and compared with what the scripts leave behind.
\* ===================================================================

\* Every <<directory, file, line>> of the tree that a run reads.
LinePositions ==
  UNION { UNION { { <<d, f, l>> :
                    l \in 1..Len(JsonlFiles(ProjectDirs[d])[f].lines) } :
                  f \in 1..Len(JsonlFiles(ProjectDirs[d])) } :
          d \in 1..Len(ProjectDirs) }

LineAt(pos) == JsonlFiles(ProjectDirs[pos[1]])[pos[2]].lines[pos[3]]

\* The position of the line a "lines" state is about to read.
CurPos == <<di, fi, li>>

\* The project name of the directory a line is in.
ProjectAt(pos) == get_project_name(ProjectDirs[pos[1]].name)

\* The text a kept line contributes: its content, trimmed.
TextAt(pos) == Strip(ContentOf(LineAt(pos)))

\* The lines parse_to_database keeps (hands to upsert_prompt).
DbKept == { pos \in LinePositions : DbOutcome(LineAt(pos)) = "keep" }

\* The lines extract_prompts keeps (appends to prompts).
ExtractKept == { pos \in LinePositions : ExtractOutcome(LineAt(pos)) = "keep" }

\* How often project p's logs hold a kept record of trimmed content c.
Occurrences(p, c) ==
  Cardinality({ pos \in DbKept : ProjectAt(pos) = p /\ TextAt(pos) = c })

\* The rows of a table for the pair (c, p).
RowsOf(tbl, c, p) ==
  { i \in 1..Len(tbl) : tbl[i].content = c /\ tbl[i].project_name = p }

\* prompts holds, for every pair, one row of count n times the pair's
\* occurrences, and no row for a pair that does not occur.
CountsAre(tbl, n) ==
  /\ \A pos \in DbKept :
       \E i \in 1..Len(tbl) :
         /\ RowsOf(tbl, TextAt(pos), ProjectAt(pos)) = {i}
         /\ tbl[i].count = n * Occurrences(ProjectAt(pos), TextAt(pos))
  /\ \A i \in 1..Len(tbl) :
       \E pos \in DbKept :
         tbl[i].content = TextAt(pos) /\ tbl[i].project_name = ProjectAt(pos)

\* C1: after one run of parse_to_database from an empty database, the count
\* of the prompts row of every (content, project) pair is the number of kept
\* records of that project with that trimmed content, wherever they lie.
C1_CountIsOccurrences == runs = 1 => CountsAre(disk.prompts, 1)

\* C1's case: one run has counted a content found in two directories of
\* the same project name.
C1_Witness ==
  /\ runs = 1
  /\ \E i \in 1..Len(disk.prompts) :
       /\ disk.prompts[i].count = 2
       /\ \E a, b \in DbKept :
            /\ a[1] # b[1]
            /\ ProjectAt(a) = disk.prompts[i].project_name
            /\ ProjectAt(b) = disk.prompts[i].project_name
            /\ TextAt(a) = disk.prompts[i].content
            /\ TextAt(b) = disk.prompts[i].content

\* No two rows of a table share (content, project_name).
UniquePairs(tbl) ==
  \A i, j \in 1..Len(tbl) :
    (tbl[i].content = tbl[j].content
       /\ tbl[i].project_name = tbl[j].project_name) => i = j

\* A step is a call of upsert_prompt when it counts a prompt.
UpsertStep == total_processed' = total_processed + 1

\* A call of upsert_prompt for a pair that has a row adds no row, adds one
\* to that row's count, sets its timestamp to the call's, and leaves the
\* other rows alone.
UpsertHitStep ==
  UpsertStep =>
    \A i \in RowsOf(conn.prompts, TextAt(CurPos), project_name) :
      /\ Len(conn'.prompts) = Len(conn.prompts)
      /\ conn'.prompts[i] =
           [conn.prompts[i] EXCEPT !.count = @ + 1,
                                   !.timestamp = LineAt(CurPos).ts]
      /\ \A j \in 1..Len(conn.prompts) :
           j # i => conn'.prompts[j] = conn.prompts[j]

\* C6: prompts never holds two rows of one (content, project_name) pair, in
\* the open connection or on disk, within a run or over several; an upsert
\* of a present pair adds no row, increments its count by one and sets its
\* timestamp to the one supplied.
C6_UniqueByContent ==
  /\ [](UniquePairs(conn.prompts) /\ UniquePairs(disk.prompts))
  /\ [][UpsertHitStep]_vars

\* C6's case: in a second run over the database, a row has been hit, and
\* carries the timestamp of the later record.
C6_Witness ==
  /\ runs = 1 /\ script = "db" /\ pc = "leave"
  /\ \E i \in 1..Len(conn.prompts) :
       conn.prompts[i].count = 4 /\ conn.prompts[i].timestamp = 2

\* The (content, project_name) entries of prompts_fts are those of the rows
\* of prompts, one for one.
FtsMirrors(db) ==
  /\ \A i \in 1..Len(db.prompts) :
       Cardinality(RowsOf(db.prompts_fts, db.prompts[i].content,
                          db.prompts[i].project_name)) = 1
  /\ \A k \in 1..Len(db.prompts_fts) :
       RowsOf(db.prompts, db.prompts_fts[k].content,
              db.prompts_fts[k].project_name) # {}

\* An upsert of a present pair leaves prompts_fts as it is.
FtsHitStep ==
  (UpsertStep /\ RowsOf(conn.prompts, TextAt(CurPos), project_name) # {})
    => conn'.prompts_fts = conn.prompts_fts

\* C9: prompts_fts holds exactly one (content, project_name) entry for each
\* prompts row and none without a row; an upsert that hits a row leaves it
\* unchanged.
C9_FtsMirrorsPrompts ==
  /\ [](FtsMirrors(conn) /\ FtsMirrors(disk))
  /\ [][FtsHitStep]_vars

\* C9's case: two rows are mirrored and one of them has been hit.
C9_Witness ==
  /\ Len(conn.prompts) = 2 /\ Len(conn.prompts_fts) = 2
  /\ \E i \in 1..2 : conn.prompts[i].count > 1

\* The (content, project_name) pairs of a table.
PairsOf(tbl) ==
  { <<tbl[i].content, tbl[i].project_name>> : i \in 1..Len(tbl) }

\* C10: after k completed runs over the same logs from an empty database,
\* prompts and prompts_fts hold the pairs one run leaves, once each, and
\* each row's count is k times the pair's occurrences.
C10_RerunMultipliesCounts ==
  runs >= 1 =>
    /\ CountsAre(disk.prompts, runs)
    /\ PairsOf(disk.prompts_fts) = PairsOf(disk.prompts)
    /\ Len(disk.prompts_fts) = Cardinality({ <<TextAt(pos), ProjectAt(pos)>> :
                                               pos \in DbKept })

\* C10's case: a second run has doubled a count of two.
C10_Witness ==
  /\ runs = 2
  /\ \E i \in 1..Len(disk.prompts) : disk.prompts[i].count = 4

\* C5: a run that finds no ~/.claude/projects prints its message and
\* returns with nothing created or changed: no prompt_exports/ and no file
\* in it, no prompts.db, and no table or row of it.
C5_MissingDirNoEffect ==
  [][pc' = "not_found" =>
       /\ stdout' = "not_found"
       /\ UNCHANGED <<output_dir, files, db_file, disk, conn>>]_vars

\* C5's case: a run has returned early with its message, and there is
\* neither an output directory nor a database.
C5_Witness ==
  /\ pc = "not_found" /\ stdout = "not_found"
  /\ ~output_dir /\ files = Empty
  /\ ~db_file /\ disk = EmptyDb

\* The rule the scripts share: the record is an object tagged 'user' whose
\* message is an object with a string content that is not empty once trimmed.
KeepRule(line) ==
  /\ line.json = "object"
  /\ line.type = "user"
  /\ line.message = "object"
  /\ line.ckind = "str"
  /\ Strip(line.content) # <<>>

\* A step of extract_prompts keeps the line it reads.
ExtractKeepStep == prompts' = Append(prompts, TextAt(CurPos))

\* A step of parse_to_database keeps the line it reads.
DbKeepStep ==
  /\ total_processed' = total_processed + 1
  /\ project_prompts' = project_prompts + 1
  /\ conn' # conn

\* C7 as stated: reading a record without dying, either script keeps it if
\* and only if the shared rule holds of it.
C7_SameRecordsKept ==
  [][(pc = "lines" /\ pc' # "crashed") =>
       /\ script = "extract" => (ExtractKeepStep <=> KeepRule(LineAt(CurPos)))
       /\ script = "db" => (DbKeepStep <=> KeepRule(LineAt(CurPos)))]_vars

\* The prompts extract_prompts holds at the end of directory d: the texts of
\* the lines of d the rule keeps.
RuleCount(d, c) ==
  Cardinality({ pos \in LinePositions :
                  pos[1] = d /\ KeepRule(LineAt(pos)) /\ TextAt(pos) = c })

Occurs(seq, c) == Cardinality({ i \in 1..Len(seq) : seq[i] = c })

\* The lines of directory d that the shared rule keeps, and those among
\* them whose timestamp is a valid ISO-8601 string.
RuleKept(d) ==
  { pos \in LinePositions : pos[1] = d /\ KeepRule(LineAt(pos)) }

RuleKeptWithTimestamp(d) ==
  { pos \in RuleKept(d) : LineAt(pos).tkind = "iso" }

\* C7 as amended, record by record: reading a record, extract_prompts keeps
\* it if and only if the shared rule holds of it, and parse_to_database
\* keeps it if and only if the rule holds and the record's timestamp is a
\* valid ISO-8601 string.  So at the end of a directory a script has read
\* through, extract_prompts holds the texts of the records the rule keeps,
\* each as often as it occurs, and parse_to_database has counted those of
\* them that carry a valid timestamp.
C7_KeptUpToTimestamp ==
  /\ [][pc = "lines" =>
         /\ script = "extract" =>
              (ExtractKeepStep <=> KeepRule(LineAt(CurPos)))
         /\ script = "db" =>
              (DbKeepStep <=> (KeepRule(LineAt(CurPos))
                                 /\ LineAt(CurPos).tkind = "iso"))]_vars
  /\ []((script = "extract" /\ pc = "leave") =>
          /\ Len(prompts) = Cardinality(RuleKept(di))
          /\ \A pos \in RuleKept(di) :
               Occurs(prompts, TextAt(pos)) = RuleCount(di, TextAt(pos)))
  /\ []((script = "db" /\ pc = "leave") =>
          project_prompts = Cardinality(RuleKeptWithTimestamp(di)))

\* C7's case: of two records of the same text, one without a timestamp,
\* extract_prompts has exported both and parse_to_database has kept one.
C7_Witness ==
  /\ script = "db" /\ pc = "leave"
  /\ total_prompts = 2
  /\ project_prompts = 1
  /\ \E pos \in ExtractKept : LineAt(pos).tkind = "absent"

\* ------------------------------------------------- claims the code breaks
\* The <<name, k>> for which a run of extract_prompts has named a file: the
\* k-th directory of project name.
Numbered ==
  UNION { { <<n, k>> : k \in 1..project_counts[n] } :
          n \in DOMAIN project_counts }

\* C2: no two directories of one run of extract_prompts are given the same
\* output file name.
C2_DistinctFilenames ==
  \A a, b \in Numbered :
    a # b => OutputFilename(a[1], a[2]) # OutputFilename(b[1], b[2])

\* The file extract_prompts names for directory d: the name of d's project
\* and d's rank among the directories of that project.
FilenameOf(d) ==
  LET name == ExtractProjectName(ProjectDirs[d].name)
  IN  OutputFilename(name,
        Cardinality({ e \in 1..d :
                        ExtractProjectName(ProjectDirs[e].name) = name }))

\* The kept lines of directory d, in the order they are read.
RECURSIVE TextsFrom(_, _, _)
TextsFrom(d, f, l) ==
  LET pos == Seek(JsonlFiles(ProjectDirs[d]), f, l)
  IN  IF pos[1] = 0 THEN <<>>
      ELSE (IF ExtractOutcome(LineAt(<<d, pos[1], pos[2]>>)) = "keep"
            THEN <<TextAt(<<d, pos[1], pos[2]>>)>> ELSE <<>>)
           \o TextsFrom(d, pos[1], pos[2] + 1)

\* C3: after a completed run, every extracted string is in the output,
\* trimmed: for extract_prompts as a block of its directory's file, in
\* reading order; for parse_to_database as the content of a row of its
\* project.
C3_RoundTrip ==
  /\ (script = "extract" /\ pc = "done") =>
       \A d \in 1..Len(ProjectDirs) :
         TextsFrom(d, 1, 1) # <<>> =>
           /\ FilenameOf(d) \in DOMAIN files
           /\ files[FilenameOf(d)] = FileText(TextsFrom(d, 1, 1))
  /\ (script = "db" /\ pc = "done") =>
       \A pos \in DbKept :
         RowsOf(disk.prompts, TextAt(pos), ProjectAt(pos)) # {}

\* The lines C4 calls malformed: invalid JSON, a blank line, JSON that is no
\* object, a message that is no object and, for parse_to_database, a
\* timestamp that is no valid ISO-8601 string.
Malformed(line) ==
  \/ line.json \in {"invalid", "blank", "nonobject"}
  \/ line.json = "object" /\ line.message = "nonobject"
  \/ script = "db" /\ KeepRule(line) /\ line.tkind \in {"badiso", "nonstr"}

\* C4: a malformed line never aborts a run: it is skipped, nothing is kept
\* of it, and the script goes on to what follows.
C4_MalformedLineSkipped ==
  [][(pc = "lines" /\ Malformed(LineAt(CurPos))) =>
       /\ pc' \in {"lines", "leave"}
       /\ UNCHANGED <<prompts, conn, disk, total_processed>>]_vars

\* The prompts a run processes for project p, over all its directories.
ProjectTotal(p) == Cardinality({ pos \in DbKept : ProjectAt(pos) = p })

\* C8: after a run of parse_to_database, projects holds one row for each
\* project name that had a kept prompt, and no other, with total_prompts the
\* number of prompts the run processed for that name.
C8_ProjectTotals ==
  (script = "db" /\ pc = "done") =>
    /\ \A pos \in DbKept :
         \E i \in 1..Len(disk.projects) :
           /\ { j \in 1..Len(disk.projects) :
                   disk.projects[j].name = ProjectAt(pos) } = {i}
           /\ disk.projects[i].total_prompts = ProjectTotal(ProjectAt(pos))
    /\ \A i \in 1..Len(disk.projects) :
         ProjectTotal(disk.projects[i].name) > 0
====
